---- MODULE Spec2Model ----
(***************************************************************************)
(* Model of src/src/components/IcdCodePredictor.tsx: the keyword-overlap   *)
(* matcher predictIcdCode and the handlePredict / setTimeout flow of the   *)
(* IcdCodePredictor component.                                             *)
(*                                                                         *)
(* JavaScript strings are TLA+ strings; Len, SubSeq and \o work on them.   *)
(* Confidence values are kept exactly, in thousandths (0.95 is 950): every *)
(* score the table can produce is a whole number of thousandths.           *)
(***************************************************************************)
EXTENDS Integers, Sequences, FiniteSets, TLC

VARIABLES
  diagnosisText,  \* useState(""), line 28
  isLoading,      \* useState(false), line 29
  prediction,     \* useState<PredictionResult | null>(null), line 30
  timers,         \* pending setTimeout callbacks: the diagnosisText each closed over
  toast,          \* the last toast shown, "none" before any
  input,          \* argument of a direct call of predictIcdCode
  other,          \* a second argument, derived from input (case change, added token)
  order,          \* order in which the reference table is handed to the matcher
  result,         \* predictIcdCode(input) once called, NoResult before
  otherResult     \* the result for other / for the reordered table

vars == <<diagnosisText, isLoading, prediction, timers, toast,
          input, other, order, result, otherResult>>

uiVars == <<diagnosisText, isLoading, prediction, timers, toast>>
fnVars == <<input, other, order, result, otherResult>>

-----------------------------------------------------------------------------
(* The reference table, lines 12-19.                                       *)
sampleData ==
  << [diagnosis |-> "Type 2 diabetes mellitus", code |-> "E11.9"],
     [diagnosis |-> "Essential hypertension",   code |-> "I10"],
     [diagnosis |-> "Acute bronchitis",         code |-> "J20.9"],
     [diagnosis |-> "Migraine",                 code |-> "G43.9"],
     [diagnosis |-> "Chronic kidney disease",   code |-> "N18.9"],
     [diagnosis |-> "Asthma",                   code |-> "J45.9"] >>

(* null, the initial prediction.                                           *)
NoResult == [code |-> "", confidence |-> 0, description |-> ""]

(* Numbers of line 38 and line 51, in thousandths.                         *)
FALLBACK_CONFIDENCE == 300
CAP == 950
SLOPE == 900
BASE == 100

-----------------------------------------------------------------------------
(* Characters.  A string literal holds ASCII only, so "~" stands for the   *)
(* one non-ASCII letter of the model, U+0131 LATIN SMALL LETTER DOTLESS I: *)
(* String.prototype.toLowerCase leaves it alone, toUpperCase maps it to    *)
(* "I" (Unicode default case conversion).                                  *)
LowerLetters == "abcdefghijklmnopqrstuvwxyz"
UpperLetters == "ABCDEFGHIJKLMNOPQRSTUVWXYZ"
DotlessI == "~"
WhiteSpace == {" ", "\t"}

CharAt(s, i) == SubSeq(s, i, i)
Rest(s) == SubSeq(s, 2, Len(s))

(* The simple case mappings of the letters, as tables. *)
LowerOf ==
  [c \in {CharAt(UpperLetters, i) : i \in 1..Len(UpperLetters)} |->
     CharAt(LowerLetters, CHOOSE i \in 1..Len(UpperLetters) : CharAt(UpperLetters, i) = c)]
UpperOf ==
  [c \in {CharAt(LowerLetters, i) : i \in 1..Len(LowerLetters)} \cup {DotlessI} |->
     IF c = DotlessI THEN "I"
     ELSE CharAt(UpperLetters, CHOOSE i \in 1..Len(LowerLetters) : CharAt(LowerLetters, i) = c)]

toLowerChar(c) == IF c \in DOMAIN LowerOf THEN LowerOf[c] ELSE c
toUpperChar(c) == IF c \in DOMAIN UpperOf THEN UpperOf[c] ELSE c

(* String.prototype.toLowerCase *)
RECURSIVE toLowerCase(_)
toLowerCase(s) ==
  IF s = "" THEN "" ELSE toLowerChar(CharAt(s, 1)) \o toLowerCase(Rest(s))

(* String.prototype.trim *)
RECURSIVE trimStart(_)
trimStart(s) ==
  IF s # "" /\ CharAt(s, 1) \in WhiteSpace THEN trimStart(Rest(s)) ELSE s

RECURSIVE trimEnd(_)
trimEnd(s) ==
  IF s # "" /\ CharAt(s, Len(s)) \in WhiteSpace
  THEN trimEnd(SubSeq(s, 1, Len(s) - 1))
  ELSE s

trim(s) == trimEnd(trimStart(s))

(* String.prototype.split(" "): cuts at every single space, keeps empty    *)
(* pieces, and gives [""] for the empty string.                            *)
RECURSIVE split(_)
split(s) ==
  IF \E i \in 1..Len(s) : CharAt(s, i) = " "
  THEN LET i == CHOOSE k \in 1..Len(s) :
                  /\ CharAt(s, k) = " "
                  /\ \A j \in 1..(k - 1) : CharAt(s, j) # " "
       IN <<SubSeq(s, 1, i - 1)>> \o split(SubSeq(s, i + 1, Len(s)))
  ELSE <<s>>

(* String.prototype.includes: the empty string is included in every string *)
includes(s, w) ==
  \E i \in 1..(Len(s) - Len(w) + 1) : SubSeq(s, i, i + Len(w) - 1) = w

-----------------------------------------------------------------------------
(* predictIcdCode, lines 34-63.                                            *)

(* line 35 *)
normalizeInputIdentity(text) == trim(text)
normalizeInput(text) == trim(toLowerCase(text))

(* line 41 *)
sampleWordsNoLower(sample) == split(sample.diagnosis)
sampleWordsOf(sample) == split(toLowerCase(sample.diagnosis))

(* line 42 *)
inputWordsNoEmpty(normalizedInput) ==
  SelectSeq(split(normalizedInput), LAMBDA w : w # "")
inputWordsOf(normalizedInput) == split(normalizedInput)

(* line 46, the callback of some *)
wordMatchesOneWay(inputWord, word) == includes(inputWord, word)
wordMatches(inputWord, word) ==
  includes(inputWord, word) \/ includes(word, inputWord)

(* line 46, inputWords.some(...) *)
someInputWordMatchesEvery(inputWords, word) ==
  \A j \in 1..Len(inputWords) : wordMatches(inputWords[j], word)
someInputWordMatches(inputWords, word) ==
  \E j \in 1..Len(inputWords) : wordMatches(inputWords[j], word)

(* lines 44-49: the forEach loop over sampleWords, from index k on *)
RECURSIVE matchCountFrom(_, _, _)
matchCountFrom(sampleWords, inputWords, k) ==
  IF k > Len(sampleWords) THEN 0
  ELSE (IF someInputWordMatches(inputWords, sampleWords[k]) THEN 1 ELSE 0)
       + matchCountFrom(sampleWords, inputWords, k + 1)

Min(a, b) == IF a < b THEN a ELSE b

(* line 51 *)
confidenceUncapped(matchCount, length) == (matchCount * SLOPE) \div length + BASE
confidenceOf(matchCount, length) ==
  Min(CAP, (matchCount * SLOPE) \div length + BASE)

(* lines 41-51: the score of one entry *)
scoreOf(sample, normalizedInput) ==
  LET sampleWords == sampleWordsOf(sample)
      inputWords == inputWordsOf(normalizedInput)
  IN confidenceOf(matchCountFrom(sampleWords, inputWords, 1), Len(sampleWords))

(* line 53 *)
replacesBestOrTies(confidence, bestMatch) == confidence >= bestMatch.confidence
replacesBest(confidence, bestMatch) == confidence > bestMatch.confidence

(* line 38 *)
fallback ==
  [code |-> "Z00.00", confidence |-> FALLBACK_CONFIDENCE,
   description |-> "General medical examination"]

(* lines 40-60: the for loop over the table, from index k on *)
RECURSIVE loopFrom(_, _, _, _)
loopFrom(table, normalizedInput, k, bestMatch) ==
  IF k > Len(table) THEN bestMatch
  ELSE LET sample == table[k]
           confidence == scoreOf(sample, normalizedInput)
       IN loopFrom(table, normalizedInput, k + 1,
                   IF replacesBest(confidence, bestMatch)
                   THEN [code |-> sample.code, confidence |-> confidence,
                         description |-> sample.diagnosis]
                   ELSE bestMatch)

(* lines 34-63 with the table as a parameter *)
match(text, table) == loopFrom(table, normalizeInput(text), 1, fallback)

predictIcdCode(text) == match(text, sampleData)

-----------------------------------------------------------------------------
(* The component, lines 27-31 and 65-88, 133-145.                          *)

WarningToast == "Please enter diagnosis text"
CompleteToast == "Prediction Complete"

(* line 66: !diagnosisText.trim() *)
rejectsOnlyEmpty(text) == text = ""
rejects(text) == trim(text) = ""

(* Texts the user puts in the field. *)
UiTexts ==
  {"", " ", "\t ", "asthma", "ASTHMA", " Asthma", "diabetes", "a", "xyz",
   "xyz  flu", "kidney  disease", "Essential hypertension"}

(* line 137: onChange={(e) => setDiagnosisText(e.target.value)} *)
SetDiagnosisText(value) ==
  /\ diagnosisText' = value
  /\ UNCHANGED <<isLoading, prediction, timers, toast>>
  /\ UNCHANGED fnVars

(* lines 65-88, reached through the button of lines 142-144, which is      *)
(* disabled while isLoading: setIsLoading(true) of a click is rendered     *)
(* before the next click is dispatched, and a disabled button dispatches   *)
(* none.  The callback given to setTimeout closes over the diagnosisText   *)
(* of the render that created this handler.  Of a toast only the title is  *)
(* kept.                                                                   *)
HandlePredict ==
  /\ ~isLoading
  /\ IF rejects(diagnosisText)
     THEN /\ toast' = WarningToast
          /\ UNCHANGED <<diagnosisText, isLoading, prediction, timers>>
     ELSE /\ isLoading' = TRUE
          /\ timers' = timers \cup {diagnosisText}
          /\ UNCHANGED <<diagnosisText, prediction, toast>>
  /\ UNCHANGED fnVars

(* lines 78-87: the timer callback, run with the text it closed over *)
TimerFireCurrentText ==
  \E captured \in timers :
    /\ prediction' = predictIcdCode(diagnosisText)
    /\ isLoading' = FALSE
    /\ toast' = CompleteToast
    /\ timers' = timers \ {captured}
    /\ UNCHANGED diagnosisText
    /\ UNCHANGED fnVars
TimerFire ==
  \E captured \in timers :
    /\ prediction' = predictIcdCode(captured)
    /\ isLoading' = FALSE
    /\ toast' = CompleteToast
    /\ timers' = timers \ {captured}
    /\ UNCHANGED diagnosisText
    /\ UNCHANGED fnVars

IdentityOrder == [i \in 1..Len(sampleData) |-> i]

UiInit ==
  /\ diagnosisText = ""
  /\ isLoading = FALSE
  /\ prediction = NoResult
  /\ timers = {}
  /\ toast = "none"

FnIdle ==
  /\ input = ""
  /\ other = ""
  /\ order = IdentityOrder
  /\ result = NoResult
  /\ otherResult = NoResult

Init == UiInit /\ FnIdle

Next ==
  \/ \E value \in UiTexts : SetDiagnosisText(value)
  \/ HandlePredict
  \/ TimerFire

Spec == Init /\ [][Next]_vars

-----------------------------------------------------------------------------
(* Direct calls of predictIcdCode on bounded inputs.                       *)

MaxWords == 2

Words ==
  {"diabetes", "2", "hypertension", "Migraine", "kidney", "ASTHMA", "asthma",
   "asthmatic", "a", "i", "xyz", DotlessI}

Gaps == {" ", "  "}
Pads == {<<"", "">>, <<" ", "">>, <<"", " ">>, <<"\t", " ">>}

RECURSIVE Join(_, _)
Join(ws, gap) ==
  IF Len(ws) = 0 THEN ""
  ELSE IF Len(ws) = 1 THEN ws[1]
  ELSE ws[1] \o gap \o Join(Tail(ws), gap)

WordSeqs == UNION {[1..n -> Words] : n \in 0..MaxWords}

Labels == {sampleData[i].diagnosis : i \in 1..Len(sampleData)}

Inputs ==
  {pad[1] \o Join(ws, gap) \o pad[2] : ws \in WordSeqs, gap \in Gaps, pad \in Pads}
    \cup Labels
    \cup {"unrelated text with no keywords", "type 2 diabetes mellitus"}

InitFn ==
  /\ UiInit
  /\ input \in Inputs
  /\ other = input
  /\ order = IdentityOrder
  /\ result = NoResult
  /\ otherResult = NoResult

CallPredict ==
  /\ result = NoResult
  /\ result' = predictIcdCode(input)
  /\ UNCHANGED <<input, other, order, otherResult>>
  /\ UNCHANGED uiVars

NextFn == CallPredict

SpecFn == InitFn /\ [][NextFn]_vars

-----------------------------------------------------------------------------
(* predictIcdCode on a text and on the same text with letters changed to   *)
(* upper or lower case (String.prototype.toUpperCase / toLowerCase of one  *)
(* character).                                                             *)

MaxCaseLen == 6

CaseInputs == {x \in Inputs : Len(x) <= MaxCaseLen}

ReplaceCharAt(s, i, c) == SubSeq(s, 1, i - 1) \o c \o SubSeq(s, i + 1, Len(s))

InitCase ==
  /\ UiInit
  /\ input \in CaseInputs
  /\ other = input
  /\ order = IdentityOrder
  /\ result = NoResult
  /\ otherResult = NoResult

ToUpperCaseAt(i) ==
  /\ result = NoResult
  /\ i \in 1..Len(other)
  /\ toUpperChar(CharAt(other, i)) # CharAt(other, i)
  /\ other' = ReplaceCharAt(other, i, toUpperChar(CharAt(other, i)))
  /\ UNCHANGED <<input, order, result, otherResult>>
  /\ UNCHANGED uiVars

ToLowerCaseAt(i) ==
  /\ result = NoResult
  /\ i \in 1..Len(other)
  /\ toLowerChar(CharAt(other, i)) # CharAt(other, i)
  /\ other' = ReplaceCharAt(other, i, toLowerChar(CharAt(other, i)))
  /\ UNCHANGED <<input, order, result, otherResult>>
  /\ UNCHANGED uiVars

CallPredictBoth ==
  /\ result = NoResult
  /\ result' = predictIcdCode(input)
  /\ otherResult' = predictIcdCode(other)
  /\ UNCHANGED <<input, other, order>>
  /\ UNCHANGED uiVars

NextCase ==
  \/ \E i \in 1..MaxCaseLen : ToUpperCaseAt(i)
  \/ \E i \in 1..MaxCaseLen : ToLowerCaseAt(i)
  \/ CallPredictBoth

SpecCase == InitCase /\ [][NextCase]_vars

-----------------------------------------------------------------------------
(* predictIcdCode on a text and on the same text with further tokens       *)
(* appended.                                                               *)

MaxExtraTokens == 2

ExtraInputs == {pad[1] \o w \o pad[2] : w \in Words \cup {""}, pad \in Pads}

AddedWords == {"2", "kidney", "asthmatic", "a", "xyz"}

InitExtra ==
  /\ UiInit
  /\ input \in ExtraInputs
  /\ other = input
  /\ order = IdentityOrder
  /\ result = NoResult
  /\ otherResult = NoResult

AppendToken(w, gap) ==
  /\ result = NoResult
  /\ Len(inputWordsOf(normalizeInput(other))) < MaxExtraTokens
  /\ other' = other \o gap \o w
  /\ UNCHANGED <<input, order, result, otherResult>>
  /\ UNCHANGED uiVars

NextExtra ==
  \/ \E w \in AddedWords, gap \in Gaps : AppendToken(w, gap)
  \/ CallPredictBoth

SpecExtra == InitExtra /\ [][NextExtra]_vars

-----------------------------------------------------------------------------
(* The matcher of lines 34-63 run over the reference table in another      *)
(* order.                                                                  *)

PermInputs == Words \cup Labels \cup {"", "xyz  xyz", "a i", "kidney asthma"}

Reordered(p) == [i \in 1..Len(sampleData) |-> sampleData[p[i]]]

InitPerm ==
  /\ UiInit
  /\ input \in PermInputs
  /\ other = input
  /\ order \in Permutations(1..Len(sampleData))
  /\ result = NoResult
  /\ otherResult = NoResult

MatchReordered ==
  /\ result = NoResult
  /\ result' = predictIcdCode(input)
  /\ otherResult' = match(input, Reordered(order))
  /\ UNCHANGED <<input, other, order>>
  /\ UNCHANGED uiVars

NextPerm == MatchReordered

SpecPerm == InitPerm /\ [][NextPerm]_vars

-----------------------------------------------------------------------------
(* What the claims say, stated over sets rather than as the loops above.   *)

(* Tokens of a text: lowercase, trim, split on single spaces. *)
InputTokens(text) == split(trim(toLowerCase(text)))

(* Tokens of the label of entry i. *)
LabelTokens(i) == split(toLowerCase(sampleData[i].diagnosis))

(* The label tokens of entry i matched by some token of toks: one contains *)
(* the other.                                                              *)
MatchedTokens(i, toks) ==
  LET lab == LabelTokens(i)
  IN {k \in 1..Len(lab) :
        \E j \in 1..Len(toks) : includes(toks[j], lab[k]) \/ includes(lab[k], toks[j])}

(* min(0.95, matched / total * 0.9 + 0.1), in thousandths *)
Score(i, toks) ==
  LET exact == (Cardinality(MatchedTokens(i, toks)) * 900) \div Len(LabelTokens(i)) + 100
  IN IF exact > 950 THEN 950 ELSE exact

Entries == 1..Len(sampleData)

(* The scores of the entries, in table order. *)
RECURSIVE ScoresFrom(_, _)
ScoresFrom(i, toks) ==
  IF i > Len(sampleData) THEN <<>> ELSE <<Score(i, toks)>> \o ScoresFrom(i + 1, toks)

MaxOf(scores) ==
  CHOOSE m \in {scores[i] : i \in Entries} : \A i \in Entries : scores[i] <= m

(* The entries that attain the maximum score. *)
ArgMaxOf(scores) == LET m == MaxOf(scores) IN {i \in Entries : scores[i] = m}

EntryResult(i, confidence) ==
  [code |-> sampleData[i].code, confidence |-> confidence,
   description |-> sampleData[i].diagnosis]

FallbackResult ==
  [code |-> "Z00.00", confidence |-> 300, description |-> "General medical examination"]

IsEntryResult(r) ==
  \E i \in Entries : r.code = sampleData[i].code /\ r.description = sampleData[i].diagnosis

Called == result # NoResult

(* C1: the confidence returned by predictIcdCode lies in [0.3, 0.95]; it is *)
(* exactly 0.3 when the fallback Z00.00 is returned and strictly above 0.3  *)
(* when a reference entry is returned.                                      *)
C1_ConfidenceRange ==
  Called =>
    /\ 300 <= result.confidence /\ result.confidence <= 950
    /\ (result.code = "Z00.00" => result.confidence = 300)
    /\ (IsEntryResult(result) => result.confidence > 300)
    /\ (IsEntryResult(result) \/ result = FallbackResult)

C1_Witness ==
  /\ Called
  /\ input = " ASTHMA xyz"
  /\ IsEntryResult(result)
  /\ result.confidence = 950

(* C2: predictIcdCode returns the earliest entry, in table order, whose     *)
(* score min(0.95, matched/total*0.9+0.1) is the maximum over the six       *)
(* entries, provided that maximum strictly exceeds 0.3, and the fallback    *)
(* otherwise.                                                               *)
C2_FirstMaximum ==
  Called =>
    LET scores == ScoresFrom(1, InputTokens(input))
        m == MaxOf(scores)
        tied == ArgMaxOf(scores)
        first == CHOOSE i \in tied : \A j \in tied : i <= j
    IN result = IF m > 300 THEN EntryResult(first, m) ELSE FallbackResult

(* input "a": Migraine and Asthma tie at 0.95 and Migraine, the earlier, wins *)
C2_Witness ==
  /\ Called
  /\ input = "a"
  /\ ArgMaxOf(ScoresFrom(1, InputTokens(input))) = {4, 6}
  /\ result = EntryResult(4, 950)

(* C3: the fallback is returned exactly when no label token of any entry is *)
(* matched by any input token; input "diabetes" gives E11.9 at 0.325.       *)
C3_FallbackIffNoMatch ==
  Called =>
    /\ result = FallbackResult
         <=> (\A i \in Entries : MatchedTokens(i, InputTokens(input)) = {})
    /\ (result # FallbackResult => IsEntryResult(result))
    /\ (input = "diabetes" => result = EntryResult(1, 325))

C3_Witness ==
  /\ Called
  /\ input = "diabetes"
  /\ Cardinality(MatchedTokens(1, InputTokens(input))) = 1
  /\ result = EntryResult(1, 325)

(* C4: called with the diagnosis label of an entry, predictIcdCode returns  *)
(* that entry's code and label with confidence 0.95.                        *)
C4_ExactLabel ==
  Called =>
    \A i \in Entries : input = sampleData[i].diagnosis => result = EntryResult(i, 950)

C4_Witness ==
  /\ Called
  /\ input = sampleData[5].diagnosis
  /\ result = EntryResult(5, 950)

AllWhiteSpace(text) == \A i \in 1..Len(text) : CharAt(text, i) \in WhiteSpace

HasEmptyToken(text) ==
  LET toks == InputTokens(text) IN \E j \in 1..Len(toks) : toks[j] = ""

(* C9: when the tokens of the input include an empty token, every label     *)
(* token of every entry counts as matched, all six entries score 0.95 and   *)
(* the first entry E11.9 is returned; the guard of handlePredict does not   *)
(* reject such an input unless it is all whitespace.                        *)
C9_EmptyTokenMatchesAll ==
  (Called /\ HasEmptyToken(input)) =>
    /\ \A i \in Entries :
         /\ matchCountFrom(sampleWordsOf(sampleData[i]),
                           inputWordsOf(normalizeInput(input)), 1)
              = Len(sampleWordsOf(sampleData[i]))
         /\ scoreOf(sampleData[i], normalizeInput(input)) = 950
    /\ result = EntryResult(1, 950)
    /\ (~AllWhiteSpace(input) => ~rejects(input))

C9_Witness ==
  /\ Called
  /\ input = "xyz  xyz"
  /\ HasEmptyToken(input)
  /\ ~rejects(input)
  /\ result = EntryResult(1, 950)

(* C5 as stated: over any permutation of the table the matcher returns the *)
(* same code, confidence and label as over the original order.             *)
C5_OrderIrrelevant == Called => otherResult = result

PositionIn(p, i) == CHOOSE k \in 1..Len(sampleData) : p[k] = i

(* C5 as amended: over any permutation the confidence is the same; code and *)
(* label are the same too when at most one entry attains the maximum score  *)
(* or the fallback is returned; when several entries tie above 0.3, the run *)
(* returns the tied entry that comes first in the order it was given.       *)
C5_OrderOnlyBreaksTies ==
  Called =>
    LET scores == ScoresFrom(1, InputTokens(input))
        m == MaxOf(scores)
        tied == ArgMaxOf(scores)
        first == CHOOSE i \in tied :
                   \A j \in tied : PositionIn(order, i) <= PositionIn(order, j)
    IN /\ otherResult.confidence = result.confidence
       /\ ((Cardinality(tied) = 1 \/ m <= 300) => otherResult = result)
       /\ (m > 300 => otherResult = EntryResult(first, m))

(* input "a" with Asthma placed first: Asthma is returned, not Migraine *)
C5_Witness ==
  /\ Called
  /\ input = "a"
  /\ order[1] = 6
  /\ result = EntryResult(4, 950)
  /\ otherResult = EntryResult(6, 950)

(* C6: handlePredict run on an empty or whitespace-only diagnosisText only  *)
(* shows the warning toast: no timer is scheduled (so predictIcdCode is not *)
(* called) and isLoading and prediction keep their values.                  *)
C6_BlankTextOnlyWarns ==
  [][(HandlePredict /\ AllWhiteSpace(diagnosisText)) =>
       /\ toast' = WarningToast
       /\ timers' = timers
       /\ isLoading' = isLoading
       /\ prediction' = prediction
       /\ diagnosisText' = diagnosisText]_vars

C6_Witness ==
  /\ toast = WarningToast
  /\ diagnosisText = "\t "
  /\ prediction = EntryResult(6, 950)
  /\ ~isLoading
  /\ timers = {}

(* C10: an accepted handlePredict sets isLoading and schedules one timer    *)
(* holding the text of that moment; while the timer is pending isLoading    *)
(* stays true and prediction keeps its value; when it fires, prediction     *)
(* becomes predictIcdCode of the text held by the timer, whatever the field *)
(* holds by then, and isLoading becomes false.                              *)
C10_TimerUsesTextOfClick ==
  [][/\ (timers = {} /\ timers' # {}) =>
          /\ timers' = {diagnosisText}
          /\ ~AllWhiteSpace(diagnosisText)
          /\ isLoading'
          /\ prediction' = prediction
     /\ (timers # {} /\ timers' = timers) =>
          /\ isLoading /\ isLoading'
          /\ prediction' = prediction
     /\ (timers # {} /\ timers' # timers) =>
          \E t \in timers :
            /\ timers = {t}
            /\ timers' = {}
            /\ prediction' = predictIcdCode(t)
            /\ ~isLoading'
     /\ (isLoading' <=> timers' # {})]_vars

(* the field was edited while the timer of "asthma" is pending *)
C10_Witness ==
  /\ isLoading
  /\ timers = {"asthma"}
  /\ diagnosisText = "diabetes"
  /\ prediction = EntryResult(1, 325)

(* C7 as stated: predictIcdCode gives the same result for a text and for    *)
(* the text with any of its letters changed to upper or lower case.         *)
C7_CaseInsensitive == Called => otherResult = result

SameAsciiLetter(c, d) ==
  \E k \in 1..Len(LowerLetters) :
    {c, d} \subseteq {CharAt(LowerLetters, k), CharAt(UpperLetters, k)}

(* y is x with the case of some ASCII letters (a-z, A-Z) changed *)
AsciiCaseVariant(x, y) ==
  /\ Len(x) = Len(y)
  /\ \A i \in 1..Len(x) :
       CharAt(x, i) = CharAt(y, i) \/ SameAsciiLetter(CharAt(x, i), CharAt(y, i))

(* C7 as amended: predictIcdCode gives the same result for a text and for   *)
(* the text with the case of any of its ASCII letters changed.              *)
C7_AsciiCaseInsensitive ==
  (Called /\ AsciiCaseVariant(input, other)) => otherResult = result

C7_Witness ==
  /\ Called
  /\ input = "asthma"
  /\ other = "ASTHMA"
  /\ result = EntryResult(6, 950)
  /\ otherResult = result

(* every token of x is a token of y *)
TokensSubset(x, y) ==
  LET xs == InputTokens(x)
      ys == InputTokens(y)
  IN \A j \in 1..Len(xs) : \E k \in 1..Len(ys) : xs[j] = ys[k]

(* C8: when every token of x is also a token of y, each entry scores at     *)
(* least as much for y as for x, and predictIcdCode(y) has a confidence at  *)
(* least that of predictIcdCode(x).                                         *)
C8_ExtraTokensNeverHurt ==
  (Called /\ TokensSubset(input, other)) =>
    /\ \A i \in Entries :
         scoreOf(sampleData[i], normalizeInput(other))
           >= scoreOf(sampleData[i], normalizeInput(input))
    /\ otherResult.confidence >= result.confidence

C8_Witness ==
  /\ Called
  /\ input = "diabetes"
  /\ other = "diabetes  2"
  /\ TokensSubset(input, other)
  /\ result.confidence = 325
  /\ otherResult.confidence = 950

====
